---- MODULE Spec2Model ----
(***************************************************************************)
(* Model of tensorflow/core/util/ctc/ctc_beam_scorer.h: the two beam       *)
(* scorers KenLMBeamScorer and PrefixScorer that a CTC beam-search decoder *)
(* drives through InitializeState / ExpandState / ExpandStateEnd /         *)
(* GetStateExpansionScore / GetStateEndExpansionScore.                     *)
(*                                                                         *)
(* Beam states live in a heap (a sequence of records); the scorer's        *)
(* methods take heap indices where the C++ takes pointers or references,   *)
(* and return the heap after the call, so that a write through the wrong   *)
(* pointer is expressible.  Scores are floats in the source; here they are *)
(* integers (every value the model produces is an integer, which float     *)
(* arithmetic represents exactly): the oracle's log-probabilities are      *)
(* integers and all trie frequencies are powers of ten.                    *)
(***************************************************************************)
EXTENDS Integers, Sequences, FiniteSets, TLC

VARIABLES kind, scorer, heap, meta, last, threads, start

vars == <<kind, scorer, heap, meta, last, threads, start>>

(***************************************************************************)
(* Bounds.                                                                 *)
(***************************************************************************)
\* number of beam states the decoder allocates (root included)
MaxBeams == 4

\* number of ExpandState calls the decoder runs at the same time
NumThreads == 2

\* the symbols the decoder emits: 'a', 'b', apostrophe, separator, blank
Symbols == {0, 1, 26, 27, 28}

\* the prior scores the decoder hands to GetStateExpansionScore
PrevScores == {-3, 2}

(***************************************************************************)
(* LabelToCharacterTranslator.  Characters are their ASCII codes.          *)
(***************************************************************************)
BlankLabel == 28

SpaceLabel == 27

IsBlankLabel(label) == label = BlankLabel

IsSpaceLabel(label) == label = SpaceLabel

GetCharacterFromLabel(label) ==
    IF label = 26 THEN 39
    ELSE IF label = 27 THEN 32
    ELSE label + 97

(***************************************************************************)
(* The label of the root beam (no symbol emitted yet).                     *)
(***************************************************************************)
kEmptyLabel == -1

(***************************************************************************)
(* Trie oracle (TrieNode<27>): a node is the sequence of labels leading to *)
(* it from the root; nullptr is a sequence that is no path.                *)
(* The vocabulary is "a", "ab", "ab'".                                     *)
(***************************************************************************)
nullptr == <<-1>>

RootNode == <<>>

TrieNodes == {<<>>, <<0>>, <<0, 1>>, <<0, 1, 26>>}

GetChildAt(node, label) ==
    IF Append(node, label) \in TrieNodes THEN Append(node, label) ELSE nullptr

GetFrequency(node) ==
    CASE node = <<>> -> 1000
      [] node = <<0>> -> 100
      [] node = <<0, 1>> -> 10
      [] node = <<0, 1, 26>> -> 1

(***************************************************************************)
(* std::log10 of a quotient of two frequencies; exact on powers of ten.    *)
(***************************************************************************)
RECURSIVE Log10Int(_)
Log10Int(n) == IF n < 10 THEN 0 ELSE 1 + Log10Int(n \div 10)

Log10Quot(num, den) == Log10Int(num) - Log10Int(den)

(***************************************************************************)
(* Language-model oracle (lm::ngram::ProbingModel): a bigram model whose   *)
(* state is the last token scored.  Tokens: 0 <unk>, 1 "a", 2 "ab",        *)
(* 3 </s>, 4 <s>.                                                          *)
(***************************************************************************)
UnkToken == 0

EndSentence == 3

BeginSentenceState == 4

Index(word) ==
    IF word = <<97>> THEN 1
    ELSE IF word = <<97, 98>> THEN 2
    ELSE UnkToken

LMProb(state, token) == -(1 + ((2 * state + 3 * token) % 5))

FullScore(in_state, token) ==
    [prob |-> LMProb(in_state, token), out |-> token]

(***************************************************************************)
(* What a freshly allocated beam state may hold before the scorer writes   *)
(* it.                                                                     *)
(***************************************************************************)
KenLMGarbage ==
    { [language_model_score |-> g, score |-> g + 1, delta_score |-> g + 2,
       incomplete_word |-> <<g>>, incomplete_word_trie_node |-> nullptr,
       model_state |-> g] : g \in {7, 9} }

PrefixGarbage == { [prob |-> g, node |-> nullptr] : g \in {7, 9} }

(***************************************************************************)
(* KenLMBeamScorer.  m is the machine: m.scorer the scorer's own fields,   *)
(* m.heap the beam states, m.queries the FullScore calls made so far in    *)
(* the current call.                                                       *)
(***************************************************************************)
KenLM_InitializeState(m, root) ==
    [m EXCEPT !.heap[root] =
        [language_model_score |-> 0, score |-> 0, delta_score |-> 0,
         incomplete_word |-> <<>>, incomplete_word_trie_node |-> m.scorer.trieRoot,
         model_state |-> BeginSentenceState]]

\* CopyState that forgets the trie position
KenLM_CopyState_NoNode(m, from, to) ==
    [m EXCEPT !.heap[to] =
        [language_model_score |-> m.heap[from].language_model_score,
         score |-> m.heap[from].score,
         delta_score |-> m.heap[from].delta_score,
         incomplete_word |-> m.heap[from].incomplete_word,
         incomplete_word_trie_node |-> m.heap[to].incomplete_word_trie_node,
         model_state |-> m.heap[from].model_state]]

\* CopyState with its arguments the wrong way round
KenLM_CopyState_Reversed(m, from, to) ==
    [m EXCEPT !.heap[from] =
        [language_model_score |-> m.heap[to].language_model_score,
         score |-> m.heap[to].score,
         delta_score |-> m.heap[to].delta_score,
         incomplete_word |-> m.heap[to].incomplete_word,
         incomplete_word_trie_node |-> m.heap[to].incomplete_word_trie_node,
         model_state |-> m.heap[to].model_state]]

\* CopyState that moves the word out of the parent instead of copying it
KenLM_CopyState_MovesWord(m, from, to) ==
    [m EXCEPT !.heap[to] =
        [language_model_score |-> m.heap[from].language_model_score,
         score |-> m.heap[from].score,
         delta_score |-> m.heap[from].delta_score,
         incomplete_word |-> m.heap[from].incomplete_word,
         incomplete_word_trie_node |-> m.heap[from].incomplete_word_trie_node,
         model_state |-> m.heap[from].model_state],
              !.heap[from].incomplete_word = <<>>]

KenLM_CopyState(m, from, to) ==
    [m EXCEPT !.heap[to] =
        [language_model_score |-> m.heap[from].language_model_score,
         score |-> m.heap[from].score,
         delta_score |-> m.heap[from].delta_score,
         incomplete_word |-> m.heap[from].incomplete_word,
         incomplete_word_trie_node |-> m.heap[from].incomplete_word_trie_node,
         model_state |-> m.heap[from].model_state]]

\* UpdateWithLMScore that reports the new score as the increment
UpdateWithLMScore_NoPrevious(m, state, lm_score) ==
    [m EXCEPT !.heap[state].language_model_score = lm_score,
              !.heap[state].score = lm_score,
              !.heap[state].delta_score = lm_score]

UpdateWithLMScore(m, state, lm_score) ==
    LET previous_score == m.heap[state].score
    IN  [m EXCEPT !.heap[state].language_model_score = lm_score,
                  !.heap[state].score = lm_score,
                  !.heap[state].delta_score = lm_score - previous_score]

\* ResetIncompleteWord that leaves the trie position where it was
ResetIncompleteWord_WordOnly(m, state) ==
    [m EXCEPT !.heap[state].incomplete_word = <<>>]

ResetIncompleteWord(m, state) ==
    [m EXCEPT !.heap[state].incomplete_word = <<>>,
              !.heap[state].incomplete_word_trie_node = m.scorer.trieRoot]

\* ScoreIncompleteWord that hands back the state it was given
ScoreIncompleteWord_KeepsState(m, model_state, word) ==
    LET vocab == Index(word)
        full_score_return == FullScore(model_state, vocab)
    IN  [m |-> [m EXCEPT !.queries =
                    Append(@, [state |-> model_state, token |-> vocab])],
         prob |-> full_score_return.prob,
         out |-> model_state]

\* returns the probability and the out state, and logs the query
ScoreIncompleteWord(m, model_state, word) ==
    LET vocab == Index(word)
        full_score_return == FullScore(model_state, vocab)
    IN  [m |-> [m EXCEPT !.queries =
                    Append(@, [state |-> model_state, token |-> vocab])],
         prob |-> full_score_return.prob,
         out |-> full_score_return.out]

\* the letter branch that caches the combined score as the model's score
KenLM_ExpandLetter_CachesScore(m, from, to, to_label) ==
    LET m1 == [m EXCEPT !.heap[to].incomplete_word =
                   Append(@, GetCharacterFromLabel(to_label))]
        parent_node == m.heap[from].incomplete_word_trie_node
        child_node == IF parent_node # nullptr
                      THEN GetChildAt(parent_node, to_label) ELSE nullptr
        m2 == IF parent_node # nullptr
              THEN [m1 EXCEPT !.heap[to].incomplete_word_trie_node = child_node]
              ELSE m1
        prefix_prob == IF child_node # nullptr
                       THEN Log10Quot(GetFrequency(child_node),
                                      GetFrequency(m2.scorer.trieRoot))
                       ELSE -10
        m3 == [m2 EXCEPT !.heap[to].language_model_score =
                   prefix_prob + m2.heap[to].language_model_score]
        m4 == [m3 EXCEPT !.heap[to].score = m3.heap[to].language_model_score]
    IN  [m4 EXCEPT !.heap[to].delta_score =
             m4.heap[to].score - m4.heap[from].score]

\* the letter branch that adds the proxy to the running score
KenLM_ExpandLetter_Accumulates(m, from, to, to_label) ==
    LET m1 == [m EXCEPT !.heap[to].incomplete_word =
                   Append(@, GetCharacterFromLabel(to_label))]
        parent_node == m.heap[from].incomplete_word_trie_node
        child_node == IF parent_node # nullptr
                      THEN GetChildAt(parent_node, to_label) ELSE nullptr
        m2 == IF parent_node # nullptr
              THEN [m1 EXCEPT !.heap[to].incomplete_word_trie_node = child_node]
              ELSE m1
        prefix_prob == IF child_node # nullptr
                       THEN Log10Quot(GetFrequency(child_node),
                                      GetFrequency(m2.scorer.trieRoot))
                       ELSE -10
        m3 == [m2 EXCEPT !.heap[to].score =
                   prefix_prob + m2.heap[to].score]
    IN  [m3 EXCEPT !.heap[to].delta_score =
             m3.heap[to].score - m3.heap[from].score]

\* the letter branch that divides by the parent node's frequency
KenLM_ExpandLetter_ParentFrequency(m, from, to, to_label) ==
    LET m1 == [m EXCEPT !.heap[to].incomplete_word =
                   Append(@, GetCharacterFromLabel(to_label))]
        parent_node == m.heap[from].incomplete_word_trie_node
        child_node == IF parent_node # nullptr
                      THEN GetChildAt(parent_node, to_label) ELSE nullptr
        m2 == IF parent_node # nullptr
              THEN [m1 EXCEPT !.heap[to].incomplete_word_trie_node = child_node]
              ELSE m1
        prefix_prob == IF child_node # nullptr
                       THEN Log10Quot(GetFrequency(child_node),
                                      GetFrequency(parent_node))
                       ELSE -10
        m3 == [m2 EXCEPT !.heap[to].score =
                   prefix_prob + m2.heap[to].language_model_score]
    IN  [m3 EXCEPT !.heap[to].delta_score =
             m3.heap[to].score - m3.heap[from].score]

\* the letter branch that stores the trie position only when the child exists
KenLM_ExpandLetter_KeepsNodeOnMiss(m, from, to, to_label) ==
    LET m1 == [m EXCEPT !.heap[to].incomplete_word =
                   Append(@, GetCharacterFromLabel(to_label))]
        parent_node == m.heap[from].incomplete_word_trie_node
        child_node == IF parent_node # nullptr
                      THEN GetChildAt(parent_node, to_label) ELSE nullptr
        m2 == IF child_node # nullptr
              THEN [m1 EXCEPT !.heap[to].incomplete_word_trie_node = child_node]
              ELSE m1
        prefix_prob == IF child_node # nullptr
                       THEN Log10Quot(GetFrequency(child_node),
                                      GetFrequency(m2.scorer.trieRoot))
                       ELSE -10
        m3 == [m2 EXCEPT !.heap[to].score =
                   prefix_prob + m2.heap[to].language_model_score]
    IN  [m3 EXCEPT !.heap[to].delta_score =
             m3.heap[to].score - m3.heap[from].score]

\* lines 142-165: a character inside a word
KenLM_ExpandLetter(m, from, to, to_label) ==
    LET m1 == [m EXCEPT !.heap[to].incomplete_word =
                   Append(@, GetCharacterFromLabel(to_label))]
        parent_node == m.heap[from].incomplete_word_trie_node
        child_node == IF parent_node # nullptr
                      THEN GetChildAt(parent_node, to_label) ELSE nullptr
        m2 == IF parent_node # nullptr
              THEN [m1 EXCEPT !.heap[to].incomplete_word_trie_node = child_node]
              ELSE m1
        prefix_prob == IF child_node # nullptr
                       THEN Log10Quot(GetFrequency(child_node),
                                      GetFrequency(m2.scorer.trieRoot))
                       ELSE -10
        m3 == [m2 EXCEPT !.heap[to].score =
                   prefix_prob + m2.heap[to].language_model_score]
    IN  [m3 EXCEPT !.heap[to].delta_score =
             m3.heap[to].score - m3.heap[from].score]

\* the separator branch that does not score an empty word
KenLM_ExpandSpace_SkipsEmptyWord(m, from, to) ==
    LET r == ScoreIncompleteWord(m, m.heap[from].model_state,
                                 m.heap[to].incomplete_word)
        m1 == [r.m EXCEPT !.heap[to].model_state = r.out]
        m2 == UpdateWithLMScore(m1, to, r.prob)
    IN  IF m.heap[to].incomplete_word = <<>>
        THEN [m EXCEPT !.heap[to].delta_score = 0]
        ELSE ResetIncompleteWord(m2, to)

\* lines 166-172: the word separator.  Line 171 reads ResetIncompleteWord()
\* with the argument left out; to_state is the only beam state the call can
\* be about and is what is modelled.
KenLM_ExpandSpace(m, from, to) ==
    LET r == ScoreIncompleteWord(m, m.heap[from].model_state,
                                 m.heap[to].incomplete_word)
        m1 == [r.m EXCEPT !.heap[to].model_state = r.out]
        m2 == UpdateWithLMScore(m1, to, r.prob)
    IN  ResetIncompleteWord(m2, to)

\* ExpandState that asks the model about the partial word at every letter
KenLM_ExpandState_ScoresEverySymbol(m, from, from_label, to, to_label) ==
    LET m0 == KenLM_CopyState(m, from, to)
    IN  IF from_label = to_label \/ IsBlankLabel(to_label)
        THEN [m0 EXCEPT !.heap[to].delta_score = 0]
        ELSE IF ~IsSpaceLabel(to_label)
        THEN KenLM_ExpandLetter(
                 ScoreIncompleteWord(m0, m0.heap[from].model_state,
                                     m0.heap[to].incomplete_word).m,
                 from, to, to_label)
        ELSE KenLM_ExpandSpace(m0, from, to)

\* ExpandState that leaves a collapsed child with the parent's increment
KenLM_ExpandState_KeepsDelta(m, from, from_label, to, to_label) ==
    LET m0 == KenLM_CopyState(m, from, to)
    IN  IF from_label = to_label \/ IsBlankLabel(to_label)
        THEN m0
        ELSE IF ~IsSpaceLabel(to_label)
        THEN KenLM_ExpandLetter(m0, from, to, to_label)
        ELSE KenLM_ExpandSpace(m0, from, to)

KenLM_ExpandState(m, from, from_label, to, to_label) ==
    LET m0 == KenLM_CopyState(m, from, to)
    IN  IF from_label = to_label \/ IsBlankLabel(to_label)
        THEN [m0 EXCEPT !.heap[to].delta_score = 0]
        ELSE IF ~IsSpaceLabel(to_label)
        THEN KenLM_ExpandLetter(m0, from, to, to_label)
        ELSE KenLM_ExpandSpace(m0, from, to)

\* ExpandStateEnd that scores the end of the sentence from the state the
\* beam had before the flush
KenLM_ExpandStateEnd_StaleState(m, state) ==
    LET flush == m.heap[state].incomplete_word # <<>>
        r == ScoreIncompleteWord(m, m.heap[state].model_state,
                                 m.heap[state].incomplete_word)
        m1 == IF flush
              THEN [ResetIncompleteWord(r.m, state)
                        EXCEPT !.heap[state].model_state = r.out]
              ELSE m
        full_score_return == FullScore(m.heap[state].model_state, EndSentence)
        m2 == [m1 EXCEPT !.queries =
                  Append(@, [state |-> m.heap[state].model_state,
                             token |-> EndSentence])]
    IN  UpdateWithLMScore(m2, state, full_score_return.prob)

KenLM_ExpandStateEnd(m, state) ==
    LET flush == m.heap[state].incomplete_word # <<>>
        r == ScoreIncompleteWord(m, m.heap[state].model_state,
                                 m.heap[state].incomplete_word)
        m1 == IF flush
              THEN [ResetIncompleteWord(r.m, state)
                        EXCEPT !.heap[state].model_state = r.out]
              ELSE m
        full_score_return == FullScore(m1.heap[state].model_state, EndSentence)
        m2 == [m1 EXCEPT !.queries =
                  Append(@, [state |-> m1.heap[state].model_state,
                             token |-> EndSentence])]
    IN  UpdateWithLMScore(m2, state, full_score_return.prob)

\* GetStateExpansionScore that exposes the absolute score
KenLM_GetStateExpansionScore_Absolute(m, state, previous_score) ==
    m.heap[state].score + previous_score

KenLM_GetStateExpansionScore(m, state, previous_score) ==
    m.heap[state].delta_score + previous_score

KenLM_GetStateEndExpansionScore(m, state) == m.heap[state].delta_score

(***************************************************************************)
(* PrefixScorer.                                                           *)
(***************************************************************************)
Prefix_InitializeState(m, root) ==
    [m EXCEPT !.heap[root] = [prob |-> 0, node |-> m.scorer.trieRoot]]

\* CopyState that forgets the accumulated penalty
Prefix_CopyState_NoProb(m, from, to) ==
    [m EXCEPT !.heap[to] = [prob |-> m.heap[to].prob,
                            node |-> m.heap[from].node]]

Prefix_CopyState(m, from, to) ==
    [m EXCEPT !.heap[to] = [prob |-> m.heap[from].prob,
                            node |-> m.heap[from].node]]

\* ExpandState without the "penalty already applied" early return
Prefix_ExpandState_NoSticky(m, from, from_label, to, to_label) ==
    LET m0 == Prefix_CopyState(m, from, to)
    IN  IF from_label = to_label \/ IsBlankLabel(to_label)
        THEN m0
        ELSE IF IsSpaceLabel(to_label)
        THEN [m0 EXCEPT !.heap[to].node = m.scorer.trieRoot]
        ELSE LET m1 == [m0 EXCEPT !.heap[to].node =
                            GetChildAt(m0.heap[to].node, to_label)]
             IN  IF m1.heap[to].node = nullptr
                 THEN [m1 EXCEPT !.heap[to].prob = @ - 1]
                 ELSE m1

Prefix_ExpandState(m, from, from_label, to, to_label) ==
    LET m0 == Prefix_CopyState(m, from, to)
    IN  IF from_label = to_label \/ IsBlankLabel(to_label)
        THEN m0
        ELSE IF IsSpaceLabel(to_label)
        THEN [m0 EXCEPT !.heap[to].node = m.scorer.trieRoot]
        ELSE IF m0.heap[to].node = nullptr
        THEN m0
        ELSE LET m1 == [m0 EXCEPT !.heap[to].node =
                            GetChildAt(m0.heap[to].node, to_label)]
             IN  IF m1.heap[to].node = nullptr
                 THEN [m1 EXCEPT !.heap[to].prob = @ - 1]
                 ELSE m1

Prefix_ExpandStateEnd(m, state) == m

\* GetStateExpansionScore that adds the prior score, as the KenLM scorer does
Prefix_GetStateExpansionScore_Adds(m, state, previous_score) ==
    m.heap[state].prob + previous_score

Prefix_GetStateExpansionScore(m, state, previous_score) == m.heap[state].prob

Prefix_GetStateEndExpansionScore(m, state) == m.heap[state].prob

(***************************************************************************)
(* The decoder driving one scorer.  kind is the scorer it was constructed  *)
(* with; meta[i] is the decoder's bookkeeping of beam i (its label, its    *)
(* parent, the symbols from the root, whether ExpandStateEnd ran); last    *)
(* records the most recent call: its arguments, the heap before it, the    *)
(* value it returned and the oracle queries it made.                       *)
(***************************************************************************)
NoCall ==
    [op |-> "none", from |-> 0, from_label |-> kEmptyLabel, to |-> 0,
     to_label |-> kEmptyLabel, pre |-> <<>>, previous_score |-> 0,
     ret |-> 0, queries |-> <<>>]

\* the scorer after its constructor: the trie read from the file, the model
Constructed == [trieRoot |-> RootNode, model |-> "ProbingModel"]

Machine(h) == [scorer |-> scorer, heap |-> h, queries |-> <<>>]

Init ==
    /\ kind \in {"KenLM", "Prefix"}
    /\ scorer = Constructed
    /\ heap = <<>>
    /\ meta = <<>>
    /\ last = NoCall
    /\ threads = <<>>
    /\ start = <<>>

RootMeta ==
    [label |-> kEmptyLabel, parent |-> 0, path |-> <<>>, ended |-> FALSE,
     increments |-> <<>>]

ChildMeta(p, to_label) ==
    [label |-> to_label, parent |-> p,
     path |-> Append(meta[p].path, to_label), ended |-> FALSE,
     increments |-> meta[p].increments]

\* the search procedure adds the increment of the state just computed to
\* the beam's running total
Accumulated(beam, state) ==
    [beam EXCEPT !.increments = Append(@, state.delta_score)]

Finish(op, from, to, to_label, previous_score, ret, m) ==
    /\ heap' = m.heap
    /\ scorer' = m.scorer
    /\ last' = [op |-> op, from |-> from,
                from_label |-> IF from = 0 THEN kEmptyLabel
                               ELSE meta[from].label,
                to |-> to, to_label |-> to_label, pre |-> heap,
                previous_score |-> previous_score, ret |-> ret,
                queries |-> m.queries]
    /\ UNCHANGED <<threads, start>>

\* the search has terminated once the decoder started finalizing its beams
SearchDone == \E i \in 1..Len(meta) : meta[i].ended

\* the decoder finalizes its beams in order
NextToEnd(s) == /\ ~meta[s].ended
                /\ \A j \in 1..(s - 1) : meta[j].ended

\* the decoder reads a score right after the call that computed it
JustWritten(ops, s) == last.op \in ops /\ last.to = s

KInitializeState ==
    /\ kind = "KenLM"
    /\ heap = <<>>
    /\ \E g \in KenLMGarbage :
          Finish("InitializeState", 0, 1, kEmptyLabel, 0, 0,
                 KenLM_InitializeState(Machine(<<g>>), 1))
    /\ meta' = <<RootMeta>>
    /\ UNCHANGED kind

KExpandState ==
    /\ kind = "KenLM"
    /\ Len(heap) < MaxBeams
    /\ ~SearchDone
    /\ \E p \in 1..Len(heap), to_label \in Symbols, g \in KenLMGarbage :
          /\ ~meta[p].ended
          /\ Finish("ExpandState", p, Len(heap) + 1, to_label, 0, 0,
                    KenLM_ExpandState(Machine(Append(heap, g)), p,
                                      meta[p].label, Len(heap) + 1, to_label))
          /\ meta' = Append(meta, Accumulated(ChildMeta(p, to_label),
                                              heap'[Len(heap) + 1]))
    /\ UNCHANGED kind

KExpandStateEnd ==
    /\ kind = "KenLM"
    /\ \E s \in 1..Len(heap) :
          /\ NextToEnd(s)
          /\ Finish("ExpandStateEnd", s, s, meta[s].label, 0, 0,
                    KenLM_ExpandStateEnd(Machine(heap), s))
          /\ meta' = [meta EXCEPT ![s] =
                          Accumulated([@ EXCEPT !.ended = TRUE], heap'[s])]
    /\ UNCHANGED kind

KGetStateExpansionScore ==
    /\ kind = "KenLM"
    /\ \E s \in 1..Len(heap), p \in PrevScores :
          /\ JustWritten({"InitializeState", "ExpandState"}, s)
          /\ Finish("GetStateExpansionScore", s, s, meta[s].label, p,
                 KenLM_GetStateExpansionScore(Machine(heap), s, p),
                 Machine(heap))
    /\ UNCHANGED <<kind, meta>>

KGetStateEndExpansionScore ==
    /\ kind = "KenLM"
    /\ \E s \in 1..Len(heap) :
          /\ JustWritten({"ExpandStateEnd"}, s)
          /\ Finish("GetStateEndExpansionScore", s, s, meta[s].label, 0,
                 KenLM_GetStateEndExpansionScore(Machine(heap), s),
                 Machine(heap))
    /\ UNCHANGED <<kind, meta>>

PInitializeState ==
    /\ kind = "Prefix"
    /\ heap = <<>>
    /\ \E g \in PrefixGarbage :
          Finish("InitializeState", 0, 1, kEmptyLabel, 0, 0,
                 Prefix_InitializeState(Machine(<<g>>), 1))
    /\ meta' = <<RootMeta>>
    /\ UNCHANGED kind

PExpandState ==
    /\ kind = "Prefix"
    /\ Len(heap) < MaxBeams
    /\ ~SearchDone
    /\ \E p \in 1..Len(heap), to_label \in Symbols, g \in PrefixGarbage :
          /\ ~meta[p].ended
          /\ Finish("ExpandState", p, Len(heap) + 1, to_label, 0, 0,
                    Prefix_ExpandState(Machine(Append(heap, g)), p,
                                       meta[p].label, Len(heap) + 1, to_label))
          /\ meta' = Append(meta, ChildMeta(p, to_label))
    /\ UNCHANGED kind

PExpandStateEnd ==
    /\ kind = "Prefix"
    /\ \E s \in 1..Len(heap) :
          /\ NextToEnd(s)
          /\ Finish("ExpandStateEnd", s, s, meta[s].label, 0, 0,
                    Prefix_ExpandStateEnd(Machine(heap), s))
          /\ meta' = [meta EXCEPT ![s].ended = TRUE]
    /\ UNCHANGED kind

PGetStateExpansionScore ==
    /\ kind = "Prefix"
    /\ \E s \in 1..Len(heap), p \in PrevScores :
          /\ JustWritten({"InitializeState", "ExpandState"}, s)
          /\ Finish("GetStateExpansionScore", s, s, meta[s].label, p,
                 Prefix_GetStateExpansionScore(Machine(heap), s, p),
                 Machine(heap))
    /\ UNCHANGED <<kind, meta>>

PGetStateEndExpansionScore ==
    /\ kind = "Prefix"
    /\ \E s \in 1..Len(heap) :
          /\ JustWritten({"ExpandStateEnd"}, s)
          /\ Finish("GetStateEndExpansionScore", s, s, meta[s].label, 0,
                 Prefix_GetStateEndExpansionScore(Machine(heap), s),
                 Machine(heap))
    /\ UNCHANGED <<kind, meta>>

Next ==
    \/ KInitializeState
    \/ KExpandState
    \/ KExpandStateEnd
    \/ KGetStateExpansionScore
    \/ KGetStateEndExpansionScore
    \/ PInitializeState
    \/ PExpandState
    \/ PExpandStateEnd
    \/ PGetStateExpansionScore
    \/ PGetStateEndExpansionScore

Spec == Init /\ [][Next]_vars

(***************************************************************************)
(* Concurrent expansion.  The decoder holds two initialized beams (the     *)
(* root and one child of it) and hands NumThreads ExpandState calls to     *)
(* worker threads, thread t writing the child state at index 2 + t; the    *)
(* steps of the calls interleave, one statement group at a time.  start is *)
(* the heap when the calls were handed out; threads[t] is the call's       *)
(* arguments, its position and its local variable probability.             *)
(***************************************************************************)
Threads == 1..NumThreads

ChildOf(t) == 2 + t

FreshMachine(h) == [scorer |-> Constructed, heap |-> h, queries |-> <<>>]

\* the two beams before the calls: the root and its child by symbol l0
ParentHeap(k, l0) ==
    IF k = "KenLM"
    THEN LET g == CHOOSE x \in KenLMGarbage : TRUE
             m1 == KenLM_InitializeState(FreshMachine(<<g, g>>), 1)
         IN  KenLM_ExpandState(m1, 1, kEmptyLabel, 2, l0).heap
    ELSE LET g == CHOOSE x \in PrefixGarbage : TRUE
             m1 == Prefix_InitializeState(FreshMachine(<<g, g>>), 1)
         IN  Prefix_ExpandState(m1, 1, kEmptyLabel, 2, l0).heap

InitConcurrent ==
    /\ kind \in {"KenLM", "Prefix"}
    /\ scorer = Constructed
    /\ \E l0 \in Symbols :
          /\ \E g \in (IF kind = "KenLM" THEN KenLMGarbage ELSE PrefixGarbage) :
                heap = ParentHeap(kind, l0) \o [t \in Threads |-> g]
          /\ meta = <<RootMeta,
                      [label |-> l0, parent |-> 1, path |-> <<l0>>,
                       ended |-> FALSE, increments |-> <<>>]>>
    /\ last = NoCall
    /\ threads \in [Threads ->
                       [pc : {"start"}, from : {1, 2}, to_label : Symbols,
                        probability : {0}]]
    /\ start = heap

FromLabel(t) == meta[threads[t].from].label

ThreadCollapsed(t) ==
    FromLabel(t) = threads[t].to_label \/ IsBlankLabel(threads[t].to_label)

\* thread t has run a statement group: the machine it leaves, where it is
Step(t, m, pc, probability) ==
    /\ heap' = m.heap
    /\ scorer' = m.scorer
    /\ threads' = [threads EXCEPT ![t].pc = pc,
                                  ![t].probability = probability]
    /\ UNCHANGED <<kind, meta, last, start>>

At(t, k, pc) == kind = k /\ threads[t].pc = pc

\* line 135
KCopyState ==
    \E t \in Threads :
        /\ At(t, "KenLM", "start")
        /\ Step(t, KenLM_CopyState(Machine(heap), threads[t].from, ChildOf(t)),
                "copied", 0)

\* lines 137-140
KCollapse ==
    \E t \in Threads :
        /\ At(t, "KenLM", "copied")
        /\ ThreadCollapsed(t)
        /\ Step(t, [Machine(heap) EXCEPT !.heap[ChildOf(t)].delta_score = 0],
                "done", 0)

\* lines 142-165
KLetter ==
    \E t \in Threads :
        /\ At(t, "KenLM", "copied")
        /\ ~ThreadCollapsed(t)
        /\ ~IsSpaceLabel(threads[t].to_label)
        /\ Step(t, KenLM_ExpandLetter(Machine(heap), threads[t].from,
                                      ChildOf(t), threads[t].to_label),
                "done", 0)

\* lines 167-169
KScore ==
    \E t \in Threads :
        /\ At(t, "KenLM", "copied")
        /\ ~ThreadCollapsed(t)
        /\ IsSpaceLabel(threads[t].to_label)
        /\ LET r == ScoreIncompleteWord(Machine(heap),
                                        heap[threads[t].from].model_state,
                                        heap[ChildOf(t)].incomplete_word)
           IN  Step(t, [r.m EXCEPT !.heap[ChildOf(t)].model_state = r.out],
                    "scored", r.prob)

\* line 170
KUpdate ==
    \E t \in Threads :
        /\ At(t, "KenLM", "scored")
        /\ Step(t, UpdateWithLMScore(Machine(heap), ChildOf(t),
                                     threads[t].probability),
                "updated", threads[t].probability)

\* line 171
KReset ==
    \E t \in Threads :
        /\ At(t, "KenLM", "updated")
        /\ Step(t, ResetIncompleteWord(Machine(heap), ChildOf(t)),
                "done", threads[t].probability)

\* line 272
PCopyState ==
    \E t \in Threads :
        /\ At(t, "Prefix", "start")
        /\ Step(t, Prefix_CopyState(Machine(heap), threads[t].from,
                                    ChildOf(t)),
                "copied", 0)

\* lines 274-276
PCollapse ==
    \E t \in Threads :
        /\ At(t, "Prefix", "copied")
        /\ ThreadCollapsed(t)
        /\ Step(t, Machine(heap), "done", 0)

\* lines 278-281
PSpace ==
    \E t \in Threads :
        /\ At(t, "Prefix", "copied")
        /\ ~ThreadCollapsed(t)
        /\ IsSpaceLabel(threads[t].to_label)
        /\ Step(t, [Machine(heap) EXCEPT
                        !.heap[ChildOf(t)].node = scorer.trieRoot],
                "done", 0)

\* lines 283-289
PLookup ==
    \E t \in Threads :
        /\ At(t, "Prefix", "copied")
        /\ ~ThreadCollapsed(t)
        /\ ~IsSpaceLabel(threads[t].to_label)
        /\ IF heap[ChildOf(t)].node = nullptr
           THEN Step(t, Machine(heap), "done", 0)
           ELSE Step(t, [Machine(heap) EXCEPT !.heap[ChildOf(t)].node =
                            GetChildAt(@, threads[t].to_label)],
                     "looked", 0)

\* lines 290-293
PPenalty ==
    \E t \in Threads :
        /\ At(t, "Prefix", "looked")
        /\ IF heap[ChildOf(t)].node = nullptr
           THEN Step(t, [Machine(heap) EXCEPT !.heap[ChildOf(t)].prob = @ - 1],
                     "done", 0)
           ELSE Step(t, Machine(heap), "done", 0)

NextConcurrent ==
    \/ KCopyState
    \/ KCollapse
    \/ KLetter
    \/ KScore
    \/ KUpdate
    \/ KReset
    \/ PCopyState
    \/ PCollapse
    \/ PSpace
    \/ PLookup
    \/ PPenalty

SpecConcurrent == InitConcurrent /\ [][NextConcurrent]_vars

(***************************************************************************)
(* Properties.  IsCall(k, op) says the last call was op on scorer k;       *)
(* Parent is the state it started from, Child the state it wrote.          *)
(***************************************************************************)
IsCall(k, op) == kind = k /\ last.op = op

Parent == last.pre[last.from]

Child == heap[last.to]

Collapsed == last.from_label = last.to_label \/ last.to_label = BlankLabel

\* C1: after every KenLMBeamScorer transition (ExpandState with any symbol,
\* collapsed or not, and ExpandStateEnd) delta_score is the resulting score
\* minus the score of the state the transition started from.
DeltaIsScoreDifference ==
    (kind = "KenLM" /\ last.op \in {"ExpandState", "ExpandStateEnd"})
        => Child.delta_score = Child.score - Parent.score

DeltaIsScoreDifferenceWitness ==
    /\ IsCall("KenLM", "ExpandStateEnd")
    /\ Parent.score # 0
    /\ Child.delta_score # 0
    /\ Child.delta_score # Child.score

\* C2: a collapsed ExpandState (repeated symbol, the separator repeated
\* included, or blank) yields delta_score = 0 and every other field of the
\* child equal to the parent's.
CollapsingRule ==
    (IsCall("KenLM", "ExpandState") /\ Collapsed)
        => Child = [Parent EXCEPT !.delta_score = 0]

CollapsingRuleWitness ==
    /\ IsCall("KenLM", "ExpandState")
    /\ last.from_label = SpaceLabel
    /\ last.to_label = SpaceLabel
    /\ Parent.delta_score # 0
    /\ Parent.model_state # BeginSentenceState

EndFlushAddsWordAndEos ==
    IsCall("KenLM", "ExpandStateEnd") =>
        LET word == FullScore(Parent.model_state, Index(Parent.incomplete_word))
            eos_after_word == FullScore(word.out, EndSentence)
            eos == FullScore(Parent.model_state, EndSentence)
        IN  IF Parent.incomplete_word # <<>>
            THEN Child.language_model_score \in
                    {word.prob + eos_after_word.prob,
                     Parent.language_model_score + word.prob
                         + eos_after_word.prob}
            ELSE Child.language_model_score \in
                    {eos.prob, Parent.language_model_score + eos.prob}

\* C5 as claimed: every KenLMBeamScorer::ExpandState whose symbol is not the
\* separator leaves the child's score equal to the parent's.
ScoreOnlyAtBoundaries ==
    (IsCall("KenLM", "ExpandState") /\ last.to_label # SpaceLabel)
        => Child.score = Parent.score

\* C5 amended: it is language_model_score that only changes at a separator
\* and at end-of-sequence.  An ExpandState whose symbol is not the separator
\* leaves the child's language_model_score equal to the parent's, and leaves
\* the child's score equal to the parent's when the call is collapsed; the
\* score reads change nothing.
LanguageModelScoreOnlyAtBoundaries ==
    /\ (IsCall("KenLM", "ExpandState") /\ last.to_label # SpaceLabel)
          => /\ Child.language_model_score = Parent.language_model_score
             /\ Collapsed => Child.score = Parent.score
    /\ (kind = "KenLM" /\ last.op \in {"GetStateExpansionScore",
                                        "GetStateEndExpansionScore"})
          => heap = last.pre

LanguageModelScoreOnlyAtBoundariesWitness ==
    /\ IsCall("KenLM", "ExpandState")
    /\ last.to_label \notin {SpaceLabel, BlankLabel}
    /\ ~Collapsed
    /\ Child.score # Parent.score
    /\ Child.language_model_score # 0

(***************************************************************************)
(* Reference computations over the symbols of a beam, independent of the   *)
(* scorers: what a beam spells after CTC collapsing, and what its words    *)
(* are worth.                                                              *)
(***************************************************************************)
RECURSIVE CollapsedSymbols(_, _)
CollapsedSymbols(prev, path) ==
    IF path = <<>> THEN <<>>
    ELSE IF Head(path) = prev \/ Head(path) = BlankLabel
         THEN CollapsedSymbols(Head(path), Tail(path))
         ELSE <<Head(path)>> \o CollapsedSymbols(Head(path), Tail(path))

Spelled(i) == CollapsedSymbols(kEmptyLabel, meta[i].path)

\* the sum of the oracle's log-probabilities of the completed words of
\* symbols, plus the trie estimate of the word left incomplete
RECURSIVE CumulativeLogProb(_, _, _, _)
CumulativeLogProb(model_state, word, node, symbols) ==
    IF symbols = <<>>
    THEN IF word = <<>> THEN 0
         ELSE IF node \in TrieNodes
         THEN Log10Quot(GetFrequency(node), GetFrequency(RootNode))
         ELSE -10
    ELSE IF Head(symbols) = SpaceLabel
    THEN LET r == FullScore(model_state, Index(word))
         IN  r.prob + CumulativeLogProb(r.out, <<>>, RootNode, Tail(symbols))
    ELSE CumulativeLogProb(model_state,
                           Append(word, GetCharacterFromLabel(Head(symbols))),
                           Append(node, Head(symbols)), Tail(symbols))

\* C6: score is cumulative: after any ExpandState calls from the root it is
\* the sum of the oracle's log-probabilities of all completed words plus the
\* trie estimate of the current partial word.
ScoreIsCumulative ==
    kind = "KenLM" =>
        \A i \in 1..Len(heap) :
            ~meta[i].ended =>
                heap[i].score =
                    CumulativeLogProb(BeginSentenceState, <<>>, RootNode,
                                      Spelled(i))

\* C7: once a PrefixScorer beam's node is empty, every further ExpandState
\* with a non-separator symbol leaves node empty and prob unchanged, and an
\* ExpandState with the separator resets node to the trie root.
StickyOutOfVocabulary ==
    (IsCall("Prefix", "ExpandState") /\ Parent.node = nullptr)
        => IF last.to_label # SpaceLabel
           THEN Child.node = nullptr /\ Child.prob = Parent.prob
           ELSE Child.node = scorer.trieRoot /\ Child.prob = Parent.prob

StickyOutOfVocabularyWitness ==
    /\ IsCall("Prefix", "ExpandState")
    /\ Parent.node = nullptr
    /\ last.to_label \notin {SpaceLabel, BlankLabel}
    /\ ~Collapsed

\* the number of words of symbols that leave the trie
RECURSIVE DivergedWords(_, _)
DivergedWords(node, symbols) ==
    IF symbols = <<>>
    THEN IF node \in TrieNodes THEN 0 ELSE 1
    ELSE IF Head(symbols) = SpaceLabel
    THEN (IF node \in TrieNodes THEN 0 ELSE 1)
             + DivergedWords(RootNode, Tail(symbols))
    ELSE DivergedWords(Append(node, Head(symbols)), Tail(symbols))

\* C8: a PrefixScorer beam's prob is -1 times the number of its words that
\* diverged from the trie (so a non-positive integer), and an ExpandState
\* never increases it.
PenaltyMagnitude ==
    kind = "Prefix" =>
        /\ \A i \in 1..Len(heap) :
              heap[i].prob = -1 * DivergedWords(RootNode, Spelled(i))
        /\ last.op = "ExpandState" => Child.prob <= Parent.prob

PenaltyMagnitudeWitness ==
    /\ kind = "Prefix"
    /\ \E i \in 1..Len(heap) :
          /\ heap[i].prob = -2
          /\ Len(meta[i].path) > 2

\* C9: KenLMBeamScorer::GetStateExpansionScore(state, p) returns
\* state.delta_score + p, writes no state and queries no oracle.
ScoreAdditivity ==
    IsCall("KenLM", "GetStateExpansionScore")
        => /\ last.ret = Child.delta_score + last.previous_score
           /\ heap = last.pre
           /\ last.queries = <<>>

ScoreAdditivityWitness ==
    /\ IsCall("KenLM", "GetStateExpansionScore")
    /\ Child.delta_score # 0
    /\ Child.delta_score # Child.score
    /\ last.previous_score # 0

\* C10: ExpandState of either scorer writes only to_state: every state
\* that existed before the call, the parent included, and the scorer's own
\* fields are as they were, and whatever the branch taken does not assign
\* is, in the child, the parent's.
ExpandStateWritesOnlyChild ==
    last.op = "ExpandState" =>
        /\ Len(heap) = Len(last.pre) + 1
        /\ \A i \in 1..Len(last.pre) : heap[i] = last.pre[i]
        /\ scorer = Constructed
        /\ kind = "KenLM" =>
              /\ Collapsed => Child = [Parent EXCEPT !.delta_score = 0]
              /\ last.to_label # SpaceLabel =>
                    /\ Child.language_model_score = Parent.language_model_score
                    /\ Child.model_state = Parent.model_state
        /\ kind = "Prefix" =>
              /\ Collapsed => Child = Parent
              /\ Child.node # nullptr => Child.prob = Parent.prob
              /\ last.to_label = SpaceLabel => Child.prob = Parent.prob

ExpandStateWritesOnlyChildWitness ==
    /\ last.op = "ExpandState"
    /\ ~Collapsed
    /\ Child # Parent
    /\ \E i \in 1..Len(last.pre) :
          /\ meta[i].parent = last.from
          /\ heap[i] # Child

\* C12: the oracle is queried only at word boundaries and at
\* end-of-sequence: a KenLMBeamScorer::ExpandState with a non-separator
\* symbol, or with a repeat of the previous symbol, makes no FullScore call
\* and leaves model_state and language_model_score the parent's; neither do
\* InitializeState and the score reads query.
OracleOnlyAtBoundaries ==
    /\ (IsCall("KenLM", "ExpandState")
           /\ (last.to_label # SpaceLabel \/ Collapsed))
          => /\ last.queries = <<>>
             /\ Child.model_state = Parent.model_state
             /\ Child.language_model_score = Parent.language_model_score
    /\ (kind = "KenLM" /\ last.queries # <<>>)
          => \/ last.op = "ExpandStateEnd"
             \/ last.op = "ExpandState" /\ last.to_label = SpaceLabel

OracleOnlyAtBoundariesWitness ==
    /\ IsCall("KenLM", "ExpandState")
    /\ last.to_label \in {0, 1, 26}
    /\ ~Collapsed
    /\ Parent.model_state # BeginSentenceState
    /\ Parent.incomplete_word # <<>>

\* C13: PrefixScorer's two score reads return state.prob, the first
\* whatever previous_score is, and its ExpandStateEnd changes nothing.
PrefixReadsReturnProb ==
    /\ IsCall("Prefix", "GetStateExpansionScore")
          => last.ret = Child.prob /\ heap = last.pre
    /\ IsCall("Prefix", "GetStateEndExpansionScore")
          => last.ret = Child.prob /\ heap = last.pre
    /\ IsCall("Prefix", "ExpandStateEnd") => heap = last.pre

PrefixReadsReturnProbWitness ==
    /\ IsCall("Prefix", "GetStateExpansionScore")
    /\ Child.prob < 0
    /\ last.previous_score # 0
    /\ Child.node = nullptr

\* a non-collapsed ExpandState of the KenLM scorer with a letter or apostrophe
MidWordStep ==
    /\ IsCall("KenLM", "ExpandState")
    /\ last.to_label \notin {SpaceLabel, BlankLabel}
    /\ ~Collapsed

\* C14: once the trie position is empty, a further mid-word step keeps it
\* empty and yields delta_score = 0, the score staying at the floor plus
\* language_model_score.
PenaltyOncePerWord ==
    (MidWordStep /\ Parent.incomplete_word_trie_node = nullptr)
        => /\ Child.incomplete_word_trie_node = nullptr
           /\ Child.delta_score = 0
           /\ Child.score = -10 + Child.language_model_score
           /\ Child.score = Parent.score

PenaltyOncePerWordWitness ==
    /\ MidWordStep
    /\ Parent.incomplete_word_trie_node = nullptr
    /\ Len(Child.incomplete_word) > 1

\* the unigram proxy of a mid-word step, from the trie
ExpectedProxy ==
    LET node == Parent.incomplete_word_trie_node
        child == IF node # nullptr /\ Append(node, last.to_label) \in TrieNodes
                 THEN Append(node, last.to_label) ELSE nullptr
    IN  IF child = nullptr THEN -10
        ELSE Log10Quot(GetFrequency(child), GetFrequency(RootNode))

\* C15: after a mid-word step score = proxy + language_model_score and
\* delta_score = score - parent's score, the proxy being -10 when the parent
\* has no trie position or the symbol no child there and else
\* log10(child frequency / root frequency); incomplete_word is the parent's
\* with the symbol's character appended.
MidWordScore ==
    MidWordStep
        => /\ Child.score = ExpectedProxy + Child.language_model_score
           /\ Child.delta_score = Child.score - Parent.score
           /\ Child.incomplete_word =
                  Append(Parent.incomplete_word,
                         IF last.to_label = 26 THEN 39 ELSE 97 + last.to_label)

MidWordScoreWitness ==
    /\ MidWordStep
    /\ ExpectedProxy = -2
    /\ Child.incomplete_word = <<97, 98>>

\* C16: after a non-collapsed separator step score and
\* language_model_score are the log-probability the oracle returns for the
\* completed word scored from the parent's model_state, model_state is the
\* state the oracle returns, and that is the only query.
WordBoundaryScore ==
    (IsCall("KenLM", "ExpandState") /\ last.to_label = SpaceLabel
         /\ ~Collapsed)
        => LET token == Index(Parent.incomplete_word)
               r == FullScore(Parent.model_state, token)
           IN  /\ Child.score = r.prob
               /\ Child.language_model_score = r.prob
               /\ Child.model_state = r.out
               /\ last.queries =
                      <<[state |-> Parent.model_state, token |-> token]>>

WordBoundaryScoreWitness ==
    /\ IsCall("KenLM", "ExpandState")
    /\ last.to_label = SpaceLabel
    /\ ~Collapsed
    /\ Parent.incomplete_word = <<97>>
    /\ Parent.model_state # BeginSentenceState

\* C17: ExpandStateEnd with a non-empty incomplete_word queries the word
\* from model_state, stores the state returned, resets the word and the
\* trie position, and then queries the end-of-sequence token from the
\* stored state: two queries in that order.  With an empty incomplete_word
\* it makes one query, the end-of-sequence token from the unchanged
\* model_state.
EndOrdering ==
    IsCall("KenLM", "ExpandStateEnd")
        => LET token == Index(Parent.incomplete_word)
               r == FullScore(Parent.model_state, token)
           IN  IF Parent.incomplete_word # <<>>
               THEN /\ last.queries =
                          <<[state |-> Parent.model_state, token |-> token],
                            [state |-> r.out, token |-> EndSentence]>>
                    /\ Child.model_state = r.out
                    /\ Child.incomplete_word = <<>>
                    /\ Child.incomplete_word_trie_node = scorer.trieRoot
                    /\ Child.score = FullScore(r.out, EndSentence).prob
               ELSE /\ last.queries =
                          <<[state |-> Parent.model_state,
                             token |-> EndSentence]>>
                    /\ Child.model_state = Parent.model_state
                    /\ Child.score =
                          FullScore(Parent.model_state, EndSentence).prob

EndOrderingWitness ==
    /\ IsCall("KenLM", "ExpandStateEnd")
    /\ Parent.incomplete_word = <<97, 98>>
    /\ Child.model_state # Parent.model_state
    /\ Len(last.queries) = 2

RECURSIVE SumSeq(_)
SumSeq(s) == IF s = <<>> THEN 0 ELSE Head(s) + SumSeq(Tail(s))

\* C18: the delta_score values produced along a beam's ancestry chain
\* (InitializeState, the ExpandState calls, ExpandStateEnd if it ran) add up
\* to the beam's score.
IncrementsTelescope ==
    kind = "KenLM" =>
        \A i \in 1..Len(heap) : SumSeq(meta[i].increments) = heap[i].score

IncrementsTelescopeWitness ==
    /\ kind = "KenLM"
    /\ \E i \in 1..Len(heap) :
          /\ meta[i].ended
          /\ Len(meta[i].increments) = 4
          /\ \E j \in 1..4 : meta[i].increments[j] > 0
          /\ heap[i].score # 0

\* the trie labels the characters of a word stand for
LabelsOf(word) ==
    [k \in 1..Len(word) |-> IF word[k] = 39 THEN 26 ELSE word[k] - 97]

\* C19: in every KenLM beam state the trie position is the node reached
\* from the root by the characters of incomplete_word when that path is in
\* the trie and is empty when it is not; incomplete_word is empty exactly
\* when the position is the root.
TrieFollowsWord ==
    kind = "KenLM" =>
        \A i \in 1..Len(heap) :
            LET labels == LabelsOf(heap[i].incomplete_word)
                node == heap[i].incomplete_word_trie_node
            IN  /\ node = IF labels \in TrieNodes THEN labels ELSE nullptr
                /\ heap[i].incomplete_word = <<>> <=> node = scorer.trieRoot

TrieFollowsWordWitness ==
    /\ kind = "KenLM"
    /\ \E i, j \in 1..Len(heap) :
          /\ heap[i].incomplete_word_trie_node = <<0, 1>>
          /\ heap[j].incomplete_word_trie_node = nullptr
          /\ Len(heap[j].incomplete_word) = 2

\* C20: a non-collapsed separator ExpandState on a parent whose
\* incomplete_word is empty still queries the oracle, for the token of the
\* empty string, and replaces score and language_model_score by the
\* result; ExpandStateEnd with an empty incomplete_word makes no word query.
EmptyWordIsScored ==
    /\ (IsCall("KenLM", "ExpandState") /\ last.to_label = SpaceLabel
           /\ ~Collapsed /\ Parent.incomplete_word = <<>>)
          => /\ last.queries = <<[state |-> Parent.model_state,
                                  token |-> Index(<<>>)]>>
             /\ Child.score = LMProb(Parent.model_state, Index(<<>>))
             /\ Child.language_model_score = Child.score
             /\ Child.model_state = Index(<<>>)
    /\ (IsCall("KenLM", "ExpandStateEnd") /\ Parent.incomplete_word = <<>>)
          => /\ Len(last.queries) = 1
             /\ last.queries[1].token = EndSentence

EmptyWordIsScoredWitness ==
    /\ IsCall("KenLM", "ExpandState")
    /\ last.to_label = SpaceLabel
    /\ last.from_label = BlankLabel
    /\ Parent.incomplete_word = <<>>
    /\ Parent.model_state # BeginSentenceState
    /\ Child.score # Parent.score

\* what the call of thread t leaves in its child when it runs alone
SequentialChild(t) ==
    LET th == threads[t]
    IN  IF kind = "KenLM"
        THEN KenLM_ExpandState(FreshMachine(start), th.from, FromLabel(t),
                               ChildOf(t), th.to_label).heap[ChildOf(t)]
        ELSE Prefix_ExpandState(FreshMachine(start), th.from, FromLabel(t),
                                ChildOf(t), th.to_label).heap[ChildOf(t)]

\* C11: concurrent ExpandState calls, sharing a parent or not, interleaved
\* in any way, each leave in their own child exactly what a sequential
\* execution leaves, and write neither the parent states nor the scorer.
ConcurrentExpansionRaceFree ==
    /\ \A i \in 1..2 : heap[i] = start[i]
    /\ scorer = Constructed
    /\ \A t \in DOMAIN threads :
          /\ threads[t].pc = "done" => heap[ChildOf(t)] = SequentialChild(t)
          /\ threads[t].pc = "start" => heap[ChildOf(t)] = start[ChildOf(t)]

ConcurrentExpansionRaceFreeWitness ==
    /\ kind = "KenLM"
    /\ threads # <<>>
    /\ \A t \in Threads : threads[t].pc = "done"
    /\ threads[1].from = 2 /\ threads[2].from = 2
    /\ threads[1].to_label = SpaceLabel /\ ~ThreadCollapsed(1)
    /\ threads[2].to_label = 1
    /\ start[2].incomplete_word # <<>>
    /\ heap[ChildOf(1)] # heap[ChildOf(2)]
    /\ heap[ChildOf(1)] # start[2]

====
